---- MODULE Spec2Model ----
(***************************************************************************)
(* Model of qsforex strategy/strategy.py: the two stateful strategies      *)
(*   PSARWithMACDStrategy      (the "Trend-Reversal Engine")               *)
(*   MovingAverageCrossStrategy (the "Crossover Detector")                 *)
(* Each calculate_signals(event) call is one atomic action (the dispatch   *)
(* is single-threaded and synchronous).                                    *)
(*                                                                         *)
(* Decimal values are modelled as exact rationals <<n, d>> in lowest       *)
(* terms.  All configured factors and windows used below are powers of two *)
(* and the runs are short, so every Decimal result has far fewer than 28   *)
(* significant digits and Python's Decimal arithmetic is exact on them.    *)
(* Prices are integers; a Decimal NaN is the value NaN below.              *)
(* The time stamp of an event is copied through unchanged by the code and  *)
(* is left out of the event records.                                       *)
(***************************************************************************)
EXTENDS Integers, Sequences, FiniteSets, TLC

VARIABLES psar,    \* the PSARWithMACDStrategy object: step, af, af_max, pairs_dict
          mac,     \* the MovingAverageCrossStrategy object: windows, pairs_dict
          events,  \* the events queue (sink) the strategies put signals on
          event,   \* the argument of the latest calculate_signals call
          result   \* how the latest call ended: "return" or the exception raised

vars == <<psar, mac, events, event, result>>

\* ------------------------------------------------------------------------
\* Bounds
\* ------------------------------------------------------------------------
\* accepted ticks per instrument of the Trend-Reversal Engine
MaxTicks == 3
\* processed ticks (all instruments together) of the Crossover Detector
MaxMATicks == 5

\* ------------------------------------------------------------------------
\* Decimal arithmetic (exact rationals)
\* ------------------------------------------------------------------------
Abs(x) == IF x < 0 THEN -x ELSE x

RECURSIVE GCD(_, _)
GCD(a, b) == IF b = 0 THEN a ELSE GCD(b, a % b)

RNorm(n, d) == LET g == GCD(Abs(n), d) IN <<n \div g, d \div g>>
RInt(p) == <<p, 1>>
RNeg(x) == <<-x[1], x[2]>>
RAdd(x, y) == RNorm(x[1] * y[2] + y[1] * x[2], x[2] * y[2])
RSub(x, y) == RAdd(x, RNeg(y))
RMul(x, y) == RNorm(x[1] * y[1], x[2] * y[2])
RDivInt(x, k) == RNorm(x[1], x[2] * k)
RLt(x, y) == x[1] * y[2] < y[1] * x[2]
RMin(x, y) == IF RLt(y, x) THEN y ELSE x
RMax(x, y) == IF RLt(x, y) THEN y ELSE x
RAbs(x) == <<Abs(x[1]), x[2]>>

\* Python's None for an optional Decimal
None == << >>
\* Decimal('NaN'), as tested by is_nan()
NaN == -1
is_nan(x) == x = NaN

RECURSIVE SeqMax(_)
SeqMax(s) == IF Len(s) = 1 THEN s[1]
             ELSE LET m == SeqMax(Tail(s)) IN IF s[1] >= m THEN s[1] ELSE m
RECURSIVE SeqMin(_)
SeqMin(s) == IF Len(s) = 1 THEN s[1]
             ELSE LET m == SeqMin(Tail(s)) IN IF s[1] <= m THEN s[1] ELSE m

\* ------------------------------------------------------------------------
\* Events
\* ------------------------------------------------------------------------
\* the instrument list given at construction; pairs[1] is Python's pairs[0]
pairs == <<"EURUSD", "GBPUSD">>
Tracked == {pairs[i] : i \in 1..Len(pairs)}
Untracked == "USDJPY"

TickEvent(i, b, a, bh, bl, ah, al) ==
    [type |-> "TICK", instrument |-> i, bid |-> b, ask |-> a,
     bid_high |-> bh, bid_low |-> bl, ask_high |-> ah, ask_low |-> al]

\* an event of another type travelling on the same queue
OtherEvent == [type |-> "SIGNAL", instrument |-> pairs[1], bid |-> 0, ask |-> 0,
               bid_high |-> 0, bid_low |-> 0, ask_high |-> 0, ask_low |-> 0]

\* Python's None for last_event, and the value of event before any call
NoEvent == [type |-> "NONE", instrument |-> "", bid |-> 0, ask |-> 0,
            bid_high |-> 0, bid_low |-> 0, ask_high |-> 0, ask_low |-> 0]

SignalEvent(i, order_type, side) ==
    [type |-> "SIGNAL", instrument |-> i, order_type |-> order_type, side |-> side]

\* ------------------------------------------------------------------------
\* PSARWithMACDStrategy (the Trend-Reversal Engine)
\* ------------------------------------------------------------------------
\* the (step, af, af_max) triples an engine is constructed with
PSARConfigs ==
    { [step |-> <<1, 4>>, af |-> <<1, 2>>, af_max |-> <<1, 2>>],
      [step |-> <<1, 2>>, af |-> <<1, 4>>, af_max |-> <<1, 2>>],
      [step |-> <<1, 4>>, af |-> <<1, 4>>, af_max |-> <<3, 4>>],
      [step |-> <<1, 4>>, af |-> <<1, 2>>, af_max |-> <<1, 4>>] }

PSAR_attr_dict(af) ==
    [af |-> af, direction |-> 0, ep |-> 0, invested |-> FALSE,
     long |-> FALSE, short |-> FALSE, ticks |-> 0, highs |-> << >>,
     last_event |-> NoEvent, lows |-> << >>, prior_sar |-> None]

PSAR_create_pairs_dict(af) == [p \in Tracked |-> PSAR_attr_dict(af)]

PSAR_init(cfg) ==
    [step |-> cfg.step, af |-> cfg.af, af_max |-> cfg.af_max,
     pairs_dict |-> PSAR_create_pairs_dict(cfg.af)]

in_uptrend(pd) == pd.direction > 0

\* a slip: the transient marker -2 taken for the downtrend value
in_downtrend_Marker(pd) == pd.direction < -1

in_downtrend(pd) == pd.direction < 0

\* a slip: any tracked instrument accepted instead of the first one only
PSAR_Accepts_AnyTracked(ev) == ev.type = "TICK" /\ ev.instrument \in Tracked

\* line 77: the tick filter
PSAR_Accepts(ev) == ev.type = "TICK" /\ ev.instrument = pairs[1]

\* a slip: the last of the four fields left out of the test
PSAR_BadData_NoBidLow(ev) ==
    is_nan(ev.ask_high) \/ is_nan(ev.ask_low) \/ is_nan(ev.bid_high)

\* lines 83-84: the bad-data test
PSAR_BadData(ev) ==
    is_nan(ev.ask_high) \/ is_nan(ev.ask_low) \/ is_nan(ev.bid_high) \/ is_nan(ev.bid_low)

\* lines 94-108: the seeding done by the second accepted tick
PSAR_SeedUp(self, pd, ps) ==
    LET hs == Append(pd.highs, pd.last_event.ask_high)
        ls == Append(pd.lows, pd.last_event.ask_low)
    IN [pd EXCEPT !.prior_sar = ps, !.direction = 1, !.highs = hs, !.lows = ls,
                  !.af = self.af, !.ep = SeqMax(hs)]

PSAR_SeedDown(self, pd, ps) ==
    LET hs == Append(pd.highs, pd.last_event.bid_high)
        ls == Append(pd.lows, pd.last_event.bid_low)
    IN [pd EXCEPT !.prior_sar = ps, !.direction = -1, !.highs = hs, !.lows = ls,
                  !.af = RNeg(self.af), !.ep = SeqMin(ls)]

\* a slip: a tie between the two distances seeds an uptrend
PSAR_Seed_TiesUp(self, pd, ev) ==
    LET ps == RDivInt(RInt(ev.ask_high + ev.ask_low + ev.bid_high + ev.bid_low), 4)
    IN IF ~RLt(RSub(ps, RInt(ev.bid_low)), RSub(RInt(ev.bid_high), ps))
       THEN PSAR_SeedUp(self, pd, ps)
       ELSE PSAR_SeedDown(self, pd, ps)

PSAR_Seed(self, pd, ev) ==
    LET ps == RDivInt(RInt(ev.ask_high + ev.ask_low + ev.bid_high + ev.bid_low), 4)
    IN IF RLt(RSub(RInt(ev.bid_high), ps), RSub(ps, RInt(ev.bid_low)))
       THEN PSAR_SeedUp(self, pd, ps)
       ELSE PSAR_SeedDown(self, pd, ps)

\* a slip: the cap forgotten
PSAR_UpAf_NoCap(self, af) == RAdd(af, self.step)

\* line 117 and line 133: the acceleration factor after a new extreme
PSAR_UpAf(self, af) == RMin(RAdd(af, self.step), self.af_max)

PSAR_DownAf(self, af) == RMax(RSub(af, self.step), RNeg(self.af_max))

\* a slip: on a reversal the indicator is not reset to the extreme
PSAR_Uptrend_KeepSar(self, pd, ev) ==
    LET hs == Append(pd.highs, ev.ask_high)
        ls == Append(pd.lows, ev.ask_low)
        sar == RAdd(pd.prior_sar, RMul(pd.af, RSub(RInt(pd.ep), pd.prior_sar)))
        high == hs[Len(hs)]
        pd1 == IF high > pd.ep
               THEN [pd EXCEPT !.highs = hs, !.lows = ls,
                               !.af = PSAR_UpAf(self, pd.af), !.ep = high]
               ELSE [pd EXCEPT !.highs = hs, !.lows = ls]
    IN IF RLt(RInt(SeqMin(ls)), sar)
       THEN [pd |-> [pd1 EXCEPT !.direction = -2, !.af = RNeg(self.af)],
             sar |-> sar, reversal |-> TRUE]
       ELSE [pd |-> pd1, sar |-> sar, reversal |-> FALSE]

\* lines 111-123: the uptrend branch; the result carries the local sar
PSAR_Uptrend(self, pd, ev) ==
    LET hs == Append(pd.highs, ev.ask_high)
        ls == Append(pd.lows, ev.ask_low)
        sar == RAdd(pd.prior_sar, RMul(pd.af, RSub(RInt(pd.ep), pd.prior_sar)))
        high == hs[Len(hs)]
        pd1 == IF high > pd.ep
               THEN [pd EXCEPT !.highs = hs, !.lows = ls,
                               !.af = PSAR_UpAf(self, pd.af), !.ep = high]
               ELSE [pd EXCEPT !.highs = hs, !.lows = ls]
    IN IF RLt(RInt(SeqMin(ls)), sar)
       THEN [pd |-> [pd1 EXCEPT !.direction = -2, !.af = RNeg(self.af)],
             sar |-> RInt(pd1.ep), reversal |-> TRUE]
       ELSE [pd |-> pd1, sar |-> sar, reversal |-> FALSE]

\* lines 136-138: what the downtrend branch does when max(highs) > sar
PSAR_DownReversal(self, pd) == [pd EXCEPT !.af = self.af]

\* lines 126-138: the downtrend branch
PSAR_Downtrend(self, pd, ev) ==
    LET hs == Append(pd.highs, ev.bid_high)
        ls == Append(pd.lows, ev.bid_low)
        sar == RAdd(pd.prior_sar, RMul(pd.af, RSub(pd.prior_sar, RInt(pd.ep))))
        low == ls[Len(ls)]
        pd1 == IF low < pd.ep
               THEN [pd EXCEPT !.highs = hs, !.lows = ls,
                               !.af = PSAR_DownAf(self, pd.af), !.ep = low]
               ELSE [pd EXCEPT !.highs = hs, !.lows = ls]
    IN IF RLt(sar, RInt(SeqMax(hs)))
       THEN [pd |-> PSAR_DownReversal(self, pd1), sar |-> RInt(pd1.ep), reversal |-> TRUE]
       ELSE [pd |-> pd1, sar |-> sar, reversal |-> FALSE]

\* lines 110-138: one of the two branches, or neither (sar stays unbound)
PSAR_Trend(self, pd, ev) ==
    IF in_uptrend(pd) THEN PSAR_Uptrend(self, pd, ev)
    ELSE IF in_downtrend(pd) THEN PSAR_Downtrend(self, pd, ev)
    ELSE [pd |-> pd, sar |-> None, reversal |-> FALSE]

\* a slip: the marker is left in place
PSAR_Normalize_Skip(pd) == pd

\* lines 140-141
PSAR_Normalize(pd) == IF pd.direction = -2 THEN [pd EXCEPT !.direction = -1] ELSE pd

\* a slip: the long test left out of the buy condition
PSAR_BuyFires_NoLongTest(pd, sar, ev) == RLt(sar, RInt(ev.ask))

\* lines 143-149
PSAR_BuyFires(pd, sar, ev) == RLt(sar, RInt(ev.ask)) /\ ~pd.long

PSAR_Buy(pd) == [pd EXCEPT !.long = TRUE, !.short = FALSE]

\* a slip: the sell test compares with the ask price
PSAR_SellFires_Ask(pd, sar, ev) == RLt(RInt(ev.ask), sar) /\ ~pd.short

\* lines 151-157
PSAR_SellFires(pd, sar, ev) == RLt(RInt(ev.bid), sar) /\ ~pd.short

\* a slip: the long flag not cleared
PSAR_Sell_KeepLong(pd) == [pd EXCEPT !.short = TRUE]

PSAR_Sell(pd) == [pd EXCEPT !.short = TRUE, !.long = FALSE]

\* lines 143-161: signal evaluation and the closing updates
PSAR_Signals(pd, sar, ev) ==
    LET buy == PSAR_BuyFires(pd, sar, ev)
        pd1 == IF buy THEN PSAR_Buy(pd) ELSE pd
        sell == PSAR_SellFires(pd1, sar, ev)
        pd2 == IF sell THEN PSAR_Sell(pd1) ELSE pd1
    IN [pd |-> [pd2 EXCEPT !.prior_sar = sar, !.last_event = ev, !.ticks = @ + 1],
        put |-> (IF buy THEN <<SignalEvent(pairs[1], "market", "buy")>> ELSE << >>)
                \o (IF sell THEN <<SignalEvent(pairs[1], "market", "sell")>> ELSE << >>),
        result |-> "return"]

\* lines 81-161 for an accepted tick: the new record of the instrument, the
\* signals put on the queue and how the call ends
\* a slip: the first tick is stored but not counted
PSAR_Process_NoCount(self, pd, ev) ==
    IF PSAR_BadData(ev) THEN [pd |-> pd, put |-> << >>, result |-> "return"]
    ELSE IF pd.ticks = 0
    THEN [pd |-> [pd EXCEPT !.last_event = ev], put |-> << >>, result |-> "return"]
    ELSE LET pd1 == IF pd.ticks = 1 THEN PSAR_Seed(self, pd, ev) ELSE pd
             t == PSAR_Trend(self, pd1, ev)
             pd2 == PSAR_Normalize(t.pd)
         IN IF t.sar = None
            THEN [pd |-> pd2, put |-> << >>, result |-> "UnboundLocalError"]
            ELSE PSAR_Signals(pd2, t.sar, ev)

PSAR_Process(self, pd, ev) ==
    IF PSAR_BadData(ev) THEN [pd |-> pd, put |-> << >>, result |-> "return"]
    ELSE IF pd.ticks = 0
    THEN [pd |-> [pd EXCEPT !.last_event = ev, !.ticks = @ + 1],
          put |-> << >>, result |-> "return"]
    ELSE LET pd1 == IF pd.ticks = 1 THEN PSAR_Seed(self, pd, ev) ELSE pd
             t == PSAR_Trend(self, pd1, ev)
             pd2 == PSAR_Normalize(t.pd)
         IN IF t.sar = None
            THEN [pd |-> pd2, put |-> << >>, result |-> "UnboundLocalError"]
            ELSE PSAR_Signals(pd2, t.sar, ev)

\* lines 76-161: one call of calculate_signals
PSAR_Call(self, ev) ==
    IF ~PSAR_Accepts(ev) THEN [self |-> self, put |-> << >>, result |-> "return"]
    ELSE IF ev.instrument \notin DOMAIN self.pairs_dict
    THEN [self |-> self, put |-> << >>, result |-> "KeyError"]
    ELSE LET r == PSAR_Process(self, self.pairs_dict[ev.instrument], ev)
         IN [self |-> [self EXCEPT !.pairs_dict[ev.instrument] = r.pd],
             put |-> r.put, result |-> r.result]

\* the events delivered to the engine: quotes over three price levels with
\* low <= price <= high on each side, the ask side not below the bid side,
\* and candles at most one level tall
Prices == {1, 2, 3}
PSAR_Ticks ==
    { TickEvent(pairs[1], b, a, bh, bl, ah, al) :
        b \in Prices, a \in Prices, bh \in Prices, bl \in Prices,
        ah \in Prices, al \in Prices }
PSAR_GoodTicks ==
    { e \in PSAR_Ticks :
        /\ e.bid_low <= e.bid /\ e.bid <= e.bid_high
        /\ e.ask_low <= e.ask /\ e.ask <= e.ask_high
        /\ e.bid <= e.ask /\ e.bid_high <= e.ask_high /\ e.bid_low <= e.ask_low
        /\ e.bid_high - e.bid_low <= 1 /\ e.ask_high - e.ask_low <= 1 }
\* one tick for each of the four fields the bad-data test reads
PSAR_NaNTicks ==
    { TickEvent(pairs[1], 1, 2, NaN, 1, 2, 1), TickEvent(pairs[1], 1, 2, 2, NaN, 2, 1),
      TickEvent(pairs[1], 1, 2, 2, 1, NaN, 1), TickEvent(pairs[1], 1, 2, 2, 1, 2, NaN) }
\* a tick of the second tracked instrument and one of an instrument not in pairs
PSAR_ForeignTicks ==
    { TickEvent(pairs[2], 1, 2, 2, 1, 2, 1), TickEvent(Untracked, 1, 2, 2, 1, 2, 1) }
PSAR_Events == PSAR_GoodTicks \cup PSAR_NaNTicks \cup PSAR_ForeignTicks \cup {OtherEvent}

\* ------------------------------------------------------------------------
\* MovingAverageCrossStrategy (the Crossover Detector)
\* ------------------------------------------------------------------------
MAC_Configs ==
    { [short_window |-> 1, long_window |-> 2],
      [short_window |-> 2, long_window |-> 4],
      [short_window |-> 2, long_window |-> 1] }

MAC_attr_dict == [ticks |-> 0, invested |-> FALSE, short_sma |-> None, long_sma |-> None]

MAC_create_pairs_dict == [p \in Tracked |-> MAC_attr_dict]

MAC_init(cfg) ==
    [short_window |-> cfg.short_window, long_window |-> cfg.long_window,
     pairs_dict |-> MAC_create_pairs_dict]

\* a slip: the old average weighted by the whole window
calc_rolling_sma_FullWindow(sma_m_1, window, price) ==
    RDivInt(RAdd(RMul(sma_m_1, RInt(window)), price), window)

calc_rolling_sma(sma_m_1, window, price) ==
    RDivInt(RAdd(RMul(sma_m_1, RInt(window - 1)), price), window)

\* lines 209-218: the update of the two averages
MAC_Averages(self, pd, price) ==
    IF pd.ticks = 0
    THEN [pd EXCEPT !.short_sma = price, !.long_sma = price]
    ELSE [pd EXCEPT !.short_sma = calc_rolling_sma(pd.short_sma, self.short_window, price),
                    !.long_sma = calc_rolling_sma(pd.long_sma, self.long_window, price)]

\* a slip: off by one in the warm-up test
MAC_WarmedUp_OffByOne(self, pd) == pd.ticks >= self.short_window

\* line 220
MAC_WarmedUp(self, pd) == pd.ticks > self.short_window

\* a slip: the invested test left out of the buy condition
MAC_BuyFires_NoFlag(pd) == RLt(pd.long_sma, pd.short_sma)

\* line 221
MAC_BuyFires(pd) == RLt(pd.long_sma, pd.short_sma) /\ ~pd.invested

\* a slip: the buy comparison copied into the sell condition
MAC_SellFires_Copied(pd) == RLt(pd.long_sma, pd.short_sma) /\ pd.invested

\* line 225
MAC_SellFires(pd) == RLt(pd.short_sma, pd.long_sma) /\ pd.invested

\* lines 209-229 for the record of the tick's instrument
MAC_Process(self, pd, ev) ==
    LET pd1 == MAC_Averages(self, pd, RInt(ev.bid))
        warm == MAC_WarmedUp(self, pd1)
        buy == warm /\ MAC_BuyFires(pd1)
        pd2 == IF buy THEN [pd1 EXCEPT !.invested = TRUE] ELSE pd1
        sell == warm /\ MAC_SellFires(pd2)
        pd3 == IF sell THEN [pd2 EXCEPT !.invested = FALSE] ELSE pd2
    IN [pd |-> [pd3 EXCEPT !.ticks = @ + 1],
        put |-> (IF buy THEN <<SignalEvent(ev.instrument, "market", "buy")>> ELSE << >>)
                \o (IF sell THEN <<SignalEvent(ev.instrument, "market", "sell")>> ELSE << >>)]

\* a slip: the record of an unknown instrument fetched with a default
\* (pairs_dict.get(pair)) and the tick skipped silently
MAC_Call_Silent(self, ev) ==
    IF ev.type # "TICK" \/ ev.instrument \notin DOMAIN self.pairs_dict
    THEN [self |-> self, put |-> << >>, result |-> "return"]
    ELSE LET r == MAC_Process(self, self.pairs_dict[ev.instrument], ev)
         IN [self |-> [self EXCEPT !.pairs_dict[ev.instrument] = r.pd],
             put |-> r.put, result |-> "return"]

\* lines 204-229: one call of calculate_signals
MAC_Call(self, ev) ==
    IF ev.type # "TICK" THEN [self |-> self, put |-> << >>, result |-> "return"]
    ELSE IF ev.instrument \notin DOMAIN self.pairs_dict
    THEN [self |-> self, put |-> << >>, result |-> "KeyError"]
    ELSE LET r == MAC_Process(self, self.pairs_dict[ev.instrument], ev)
         IN [self |-> [self EXCEPT !.pairs_dict[ev.instrument] = r.pd],
             put |-> r.put, result |-> "return"]

MAC_Prices == {1, 2, 3}
MAC_Tick(i, p) == TickEvent(i, p, p, p, p, p, p)
MAC_Events ==
    { MAC_Tick(i, p) : i \in Tracked \cup {Untracked}, p \in MAC_Prices } \cup {OtherEvent}

RECURSIVE SumTicks(_, _)
SumTicks(d, S) ==
    IF S = {} THEN 0
    ELSE LET p == CHOOSE x \in S : TRUE IN d[p].ticks + SumTicks(d, S \ {p})

\* ------------------------------------------------------------------------
\* Specifications: one strategy object receives the event stream
\* ------------------------------------------------------------------------
PSAR_Default == PSAR_init([step |-> <<1, 4>>, af |-> <<1, 2>>, af_max |-> <<1, 2>>])
MAC_Default == MAC_init([short_window |-> 1, long_window |-> 2])

InitPSAR ==
    /\ psar \in {PSAR_init(c) : c \in PSARConfigs}
    /\ mac = MAC_Default
    /\ events = << >>
    /\ event = NoEvent
    /\ result = "none"

PSAR_calculate_signals ==
    \E ev \in PSAR_Events :
        LET r == PSAR_Call(psar, ev)
        IN /\ \A p \in Tracked : r.self.pairs_dict[p].ticks <= MaxTicks
           /\ psar' = r.self
           /\ events' = events \o r.put
           /\ event' = ev
           /\ result' = r.result
           /\ UNCHANGED mac

NextPSAR == PSAR_calculate_signals

SpecPSAR == InitPSAR /\ [][NextPSAR]_vars

\* The same engine fed quotes whose two sides are unrelated (the code does
\* not require the ask side to lie above the bid side): each side is a
\* candle low <= price <= high over two price levels.
PSAR_AnyQuotes ==
    { TickEvent(pairs[1], b, a, bh, bl, ah, al) :
        b \in {1, 2}, a \in {1, 2}, bh \in {1, 2}, bl \in {1, 2},
        ah \in {1, 2}, al \in {1, 2} }
PSAR_AnyEvents ==
    { e \in PSAR_AnyQuotes :
        /\ e.bid_low <= e.bid /\ e.bid <= e.bid_high
        /\ e.ask_low <= e.ask /\ e.ask <= e.ask_high }

PSAR_calculate_signals_any ==
    \E ev \in PSAR_AnyEvents :
        LET r == PSAR_Call(psar, ev)
        IN /\ \A p \in Tracked : r.self.pairs_dict[p].ticks <= MaxTicks
           /\ psar' = r.self
           /\ events' = events \o r.put
           /\ event' = ev
           /\ result' = r.result
           /\ UNCHANGED mac

NextPSARAny == PSAR_calculate_signals_any

SpecPSARAny == InitPSAR /\ [][NextPSARAny]_vars

InitMAC ==
    /\ mac \in {MAC_init(c) : c \in MAC_Configs}
    /\ psar = PSAR_Default
    /\ events = << >>
    /\ event = NoEvent
    /\ result = "none"

MAC_calculate_signals ==
    \E ev \in MAC_Events :
        LET r == MAC_Call(mac, ev)
        IN /\ SumTicks(r.self.pairs_dict, Tracked) <= MaxMATicks
           /\ mac' = r.self
           /\ events' = events \o r.put
           /\ event' = ev
           /\ result' = r.result
           /\ UNCHANGED psar

NextMAC == MAC_calculate_signals

SpecMAC == InitMAC /\ [][NextMAC]_vars

\* ------------------------------------------------------------------------
\* Properties
\* ------------------------------------------------------------------------
\* the record of the engine's primary instrument
PD == psar.pairs_dict[pairs[1]]

\* the signals on the queue that name instrument p, in order
RECURSIVE SidesOf(_, _)
SidesOf(q, p) ==
    IF q = << >> THEN << >>
    ELSE (IF q[1].instrument = p THEN <<q[1].side>> ELSE << >>) \o SidesOf(Tail(q), p)

\* the signals the latest step put on the queue
Put == SubSeq(events', Len(events) + 1, Len(events'))

Alternates(s) ==
    \A i \in 1..Len(s) : s[i] = (IF i % 2 = 1 THEN "buy" ELSE "sell")

\* C1: Crossover Detector: a tick that arrives while its instrument's
\* tick count is <= short_window puts no signal on the queue.
C1_WarmUpGating ==
    [][\A p \in Tracked :
         (event'.type = "TICK" /\ event'.instrument = p
            /\ mac.pairs_dict[p].ticks <= mac.short_window)
         => events' = events]_vars

\* C1 witness: a warm-up tick just left the short average above the long
\* one, and nothing was emitted.
C1_Witness ==
    \E p \in Tracked :
        /\ event.type = "TICK" /\ event.instrument = p
        /\ mac.pairs_dict[p].ticks >= 2
        /\ mac.pairs_dict[p].ticks <= mac.short_window + 1
        /\ RLt(mac.pairs_dict[p].long_sma, mac.pairs_dict[p].short_sma)
        /\ events = << >>

\* C2: Trend-Reversal Engine: long and short of an instrument are never
\* both true when calculate_signals has returned.
C2_LongShortExclusive ==
    \A p \in Tracked : ~(psar.pairs_dict[p].long /\ psar.pairs_dict[p].short)

\* C2 witness: the seeding tick emitted a buy and then a sell.
C2_Witness ==
    /\ PD.ticks = 2
    /\ Len(events) = 2
    /\ events[1].side = "buy" /\ events[2].side = "sell"
    /\ PD.short /\ ~PD.long

HasNaNField(ev) ==
    \E x \in {ev.ask_high, ev.ask_low, ev.bid_high, ev.bid_low} : x = NaN

\* C4: Trend-Reversal Engine: a primary-instrument tick with a NaN in
\* ask_high, ask_low, bid_high or bid_low changes nothing of the engine's
\* per-instrument state, puts no signal on the queue, and returns.
C4_NaNTickIsNoOp ==
    /\ []((event.type = "TICK" /\ event.instrument = pairs[1] /\ HasNaNField(event))
            => result = "return")
    /\ [][(event'.type = "TICK" /\ event'.instrument = pairs[1] /\ HasNaNField(event'))
            => (psar' = psar /\ events' = events)]_vars

\* C4 witness: a NaN tick was delivered to a seeded engine holding a position.
C4_Witness ==
    /\ event.type = "TICK" /\ event.instrument = pairs[1] /\ HasNaNField(event)
    /\ is_nan(event.bid_low) /\ ~is_nan(event.ask_high)
    /\ PD.ticks >= 2
    /\ events # << >>
    /\ result = "return"

\* C5: Trend-Reversal Engine: a tick of an instrument other than the first
\* of the instrument list changes no instrument's state and emits nothing.
C5_OnlyPrimaryProcessed ==
    [][(event'.type = "TICK" /\ event'.instrument # pairs[1])
         => (psar' = psar /\ events' = events)]_vars

\* C5 witness: a tick of the second tracked instrument was delivered to a
\* seeded engine.
C5_Witness ==
    /\ event.type = "TICK" /\ event.instrument = pairs[2]
    /\ PD.ticks >= 2
    /\ psar.pairs_dict[pairs[2]].ticks = 0

\* C6: Crossover Detector: one call puts at most one signal on the queue.
C6_AtMostOneSignal == [][Len(events') <= Len(events) + 1]_vars

\* C6 witness: the latest tick emitted a buy (short above long, invested set).
C6_Witness ==
    \E p \in Tracked :
        /\ event.type = "TICK" /\ event.instrument = p
        /\ events # << >>
        /\ events[Len(events)] = SignalEvent(p, "market", "buy")
        /\ mac.pairs_dict[p].invested
        /\ RLt(mac.pairs_dict[p].long_sma, mac.pairs_dict[p].short_sma)
        /\ mac.pairs_dict[p].ticks = mac.short_window + 2

\* C7: Crossover Detector: per instrument the signals alternate buy, sell,
\* buy, ... starting with a buy; invested is true exactly after a buy; it is
\* false throughout warm-up; it changes only on a tick that emits the
\* matching signal; and while invested a signal is emitted only on a tick
\* that leaves the short average below the long average.
C7_Alternation ==
    /\ [](\A p \in Tracked :
            /\ Alternates(SidesOf(events, p))
            /\ mac.pairs_dict[p].invested = (Len(SidesOf(events, p)) % 2 = 1)
            /\ (mac.pairs_dict[p].ticks <= mac.short_window + 1
                  => ~mac.pairs_dict[p].invested))
    /\ [][\A p \in Tracked :
            /\ (mac.pairs_dict[p].invested' # mac.pairs_dict[p].invested)
                 <=> (SidesOf(Put, p) # << >>)
            /\ (~mac.pairs_dict[p].invested /\ mac.pairs_dict[p].invested')
                 => SidesOf(Put, p) = <<"buy">>
            /\ (mac.pairs_dict[p].invested /\ ~mac.pairs_dict[p].invested')
                 => SidesOf(Put, p) = <<"sell">>
            /\ (mac.pairs_dict[p].invested /\ SidesOf(Put, p) # << >>)
                 => RLt(mac.pairs_dict[p].short_sma', mac.pairs_dict[p].long_sma')]_vars

\* C7 witness: an instrument has emitted buy, sell, buy.
C7_Witness ==
    \E p \in Tracked :
        /\ SidesOf(events, p) = <<"buy", "sell", "buy">>
        /\ mac.pairs_dict[p].invested

\* C8: Trend-Reversal Engine: no call ends in an exception; from the
\* seeding tick on direction is +1 or -1 (so a trend branch runs and the
\* indicator is computed), and the histories and the prior indicator exist.
C8_NeverFails ==
    /\ result \in {"none", "return"}
    /\ \A p \in Tracked :
         psar.pairs_dict[p].ticks >= 2
         => /\ psar.pairs_dict[p].direction \in {1, -1}
            /\ Len(psar.pairs_dict[p].highs) > 0
            /\ Len(psar.pairs_dict[p].lows) > 0
            /\ psar.pairs_dict[p].prior_sar # None

\* C8 witness: a tick was processed by the downtrend branch of an engine
\* seeded two ticks ago, and the call returned.
C8_Witness ==
    /\ PD.ticks = 3
    /\ PD.direction = -1
    /\ event = PD.last_event
    /\ result = "return"

\* C9: Crossover Detector: a tick of an instrument that is not in the
\* instrument list ends in a KeyError, puts no signal on the queue and
\* leaves the detector's state unchanged.
C9_UntrackedFailsLoudly ==
    /\ []((event.type = "TICK" /\ event.instrument \notin Tracked)
            => result = "KeyError")
    /\ [][(event'.type = "TICK" /\ event'.instrument \notin Tracked)
            => (mac' = mac /\ events' = events)]_vars

\* C9 witness: the call for an untracked instrument's tick raised, in a
\* detector that has processed ticks and emitted a signal.
C9_Witness ==
    /\ event.type = "TICK" /\ event.instrument = Untracked
    /\ result = "KeyError"
    /\ SumTicks(mac.pairs_dict, Tracked) >= 3
    /\ events # << >>


\* the latest step processed a tick in downtrend and max(highs) > sar held
DownReversalStep ==
    /\ PSAR_Accepts(event') /\ ~PSAR_BadData(event')
    /\ PD.ticks >= 1 /\ PD'.ticks = PD.ticks + 1
    /\ LET pd1 == IF PD.ticks = 1 THEN PSAR_Seed(psar, PD, event') ELSE PD
       IN in_downtrend(pd1) /\ PSAR_Downtrend(psar, pd1, event').reversal

\* C10: Trend-Reversal Engine: a tick processed in downtrend on which the
\* maximum of the high history exceeds the indicator ends with direction +1
\* and the acceleration factor reset to +initial.
C10_DownReversalFlips ==
    [][DownReversalStep => (PD'.direction = 1 /\ PD'.af = psar.af)]_vars

\* the latest step took a tick of the primary instrument through the trend
\* branches and signal evaluation (any accepted tick but the first)
ProcessedStep ==
    /\ event'.type = "TICK" /\ event'.instrument = pairs[1] /\ ~HasNaNField(event')
    /\ PD.ticks >= 1 /\ PD'.ticks = PD.ticks + 1

\* the record the trend branches start from in the latest step
Seeded == IF PD.ticks = 1 THEN PSAR_Seed(psar, PD, event') ELSE PD

\* the latest step processed a tick in uptrend and min(lows) < sar held
UpReversalStep ==
    /\ ProcessedStep
    /\ in_uptrend(Seeded) /\ PSAR_Uptrend(psar, Seeded, event').reversal

Buy == SignalEvent(pairs[1], "market", "buy")
Sell == SignalEvent(pairs[1], "market", "sell")
InSeq(x, q) == \E i \in 1..Len(q) : q[i] = x

\* C11: Trend-Reversal Engine: a tick processed in uptrend with min(lows)
\* below the new indicator ends with direction -1 and the acceleration
\* factor -initial; the indicator stored as prior_sar, and compared with the
\* ask price for the buy signal, is the uptrend's extreme (the maximum of
\* the highs, the tick's own high included).
C11_UpReversal ==
    [][UpReversalStep
         => /\ PD'.direction = -1
            /\ PD'.af = RNeg(psar.af)
            /\ PD'.prior_sar = RInt(PD'.ep)
            /\ PD'.ep = SeqMax(PD'.highs)
            /\ InSeq(Buy, Put) <=> (PD'.ep < event'.ask /\ ~PD.long)]_vars

\* C11 witness: the seeding tick chose uptrend, raised the extreme to its
\* own high and reversed.
C11_Witness ==
    /\ PD.ticks = 2 /\ event = PD.last_event
    /\ event.ask_high + event.ask_low > event.bid_high + event.bid_low
    /\ PD.direction = -1
    /\ PD.highs[1] < event.ask_high
    /\ PD.ep = event.ask_high
    /\ PD.prior_sar = RInt(PD.ep)

\* C12 as claimed: a sell is emitted iff the indicator is above the bid and
\* short was not set when the tick arrived; a buy iff the indicator is
\* below the ask and long was not set when the tick arrived.
C12_AsClaimed ==
    [][ProcessedStep
         => /\ InSeq(Sell, Put) <=> (RLt(RInt(event'.bid), PD'.prior_sar) /\ ~PD.short)
            /\ InSeq(Buy, Put) <=> (RLt(PD'.prior_sar, RInt(event'.ask)) /\ ~PD.long)]_vars

\* C12 (amended): a buy is emitted iff the indicator is below the ask and
\* long was not set when the tick arrived; a sell is emitted iff the
\* indicator is above the bid and short is not set when the sell test runs,
\* that is, short was not set when the tick arrived or a buy fired on this
\* tick (the buy clears short).
C12_SignalEvaluation ==
    [][ProcessedStep
         => /\ InSeq(Buy, Put) <=> (RLt(PD'.prior_sar, RInt(event'.ask)) /\ ~PD.long)
            /\ InSeq(Sell, Put) <=> (/\ RLt(RInt(event'.bid), PD'.prior_sar)
                                     /\ (~PD.short \/ InSeq(Buy, Put)))]_vars

\* C12 witness: a sell had set short, and the next tick (bid < indicator <
\* ask) emitted a buy and a sell again.
C12_Witness ==
    /\ PD.ticks = 3
    /\ events = <<Sell, Buy, Sell>>
    /\ RLt(RInt(event.bid), PD.prior_sar) /\ RLt(PD.prior_sar, RInt(event.ask))
    /\ event = PD.last_event

\* C13: Trend-Reversal Engine: from the seeding tick on, ep is the maximum
\* of highs in uptrend and the minimum of lows in downtrend.
C13_ExtremeIsRunningExtreme ==
    PD.ticks >= 2
    => /\ PD.direction = 1 => PD.ep = SeqMax(PD.highs)
       /\ PD.direction = -1 => PD.ep = SeqMin(PD.lows)

\* C14: Trend-Reversal Engine: when af_max equals the initial factor, the
\* magnitude of the acceleration factor is the initial factor after every
\* processed tick from the seeding tick on, for every tick sequence (checked
\* under SpecPSARAny, whose quotes may have the ask side below the bid side).
C14_StepNeverTakesEffect ==
    (psar.af_max = psar.af /\ PD.ticks >= 2) => RAbs(PD.af) = psar.af

\* the latest step reversed the trend (either test of lines 120, 136 held)
ReversalStep == UpReversalStep \/ DownReversalStep

\* C15: Trend-Reversal Engine: highs and lows always have the same length;
\* a processed tick that does not reverse the trend appends one high and one
\* low and removes nothing; after a tick that reverses the trend the
\* histories hold nothing recorded before the new trend began (at most the
\* reversing tick's own entry).
C15_HistoriesSinceTrendInception ==
    [][ProcessedStep
         => /\ Len(PD'.highs) = Len(PD'.lows)
            /\ (PD.ticks >= 2 /\ ~ReversalStep)
                 => /\ PD'.highs = Append(PD.highs, PD'.highs[Len(PD'.highs)])
                    /\ PD'.lows = Append(PD.lows, PD'.lows[Len(PD'.lows)])
            /\ ReversalStep => (Len(PD'.highs) <= 1 /\ Len(PD'.lows) <= 1)]_vars

\* the record C16 says the seeding leaves, for the tick ev
C16_Start(ev) ==
    LET le == PD.last_event
        seed == RDivInt(RInt(ev.ask_high + ev.ask_low + ev.bid_high + ev.bid_low), 4)
    IN IF RLt(RSub(RInt(ev.bid_high), seed), RSub(seed, RInt(ev.bid_low)))
       THEN [PD EXCEPT !.prior_sar = seed, !.direction = 1,
                       !.highs = <<le.ask_high>>, !.lows = <<le.ask_low>>,
                       !.af = psar.af, !.ep = le.ask_high]
       ELSE [PD EXCEPT !.prior_sar = seed, !.direction = -1,
                       !.highs = <<le.bid_high>>, !.lows = <<le.bid_low>>,
                       !.af = RNeg(psar.af), !.ep = le.bid_low]

\* C16: Trend-Reversal Engine: the second accepted tick seeds the trend from
\* seed = mean(ask_high, ask_low, bid_high, bid_low): uptrend iff
\* seed - bid_low > bid_high - seed, else downtrend (ties included); the
\* histories start with the previous tick's ask (uptrend) or bid (downtrend)
\* high and low, af is +initial or -initial, ep the seeded high or low; the
\* steady-state step and signal evaluation then run on that record.
C16_Seeding ==
    [][(ProcessedStep /\ PD.ticks = 1)
         => LET t == PSAR_Trend(psar, C16_Start(event'), event')
                g == PSAR_Signals(PSAR_Normalize(t.pd), t.sar, event')
            IN /\ PD' = g.pd
               /\ Put = g.put
               /\ Len(PD'.highs) = 2 /\ Len(PD'.lows) = 2]_vars

\* C16 witness: a seeding tick with a tie between the two distances chose
\* downtrend, and the downtrend step ran on the seeded record (it reversed).
C16_Witness ==
    /\ PD.ticks = 2 /\ event = PD.last_event
    /\ event.ask_high + event.ask_low = event.bid_high + event.bid_low
    /\ event.bid_low < event.bid_high
    /\ PD.direction = -1
    /\ PD.highs[2] = event.bid_high /\ PD.lows[2] = event.bid_low
    /\ PD.af = psar.af /\ PD.prior_sar = RInt(PD.ep)

\* C17: Trend-Reversal Engine: whenever calculate_signals has returned,
\* direction is not the transient marker -2, and once the instrument is
\* seeded (ticks >= 2) direction is exactly +1 or -1.
C17_MarkerNeverObservable ==
    /\ \A p \in Tracked : psar.pairs_dict[p].direction # -2
    /\ PD.ticks >= 2 => PD.direction \in {1, -1}

\* C17 witness: the third tick was processed by the uptrend branch (its ask
\* high and low were appended) and reversed (the marker was set on line 121);
\* the state shows the normalized direction.
C17_Witness ==
    /\ PD.ticks = 3 /\ event = PD.last_event /\ result = "return"
    /\ PD.direction = -1 /\ PD.af = RNeg(psar.af)
    /\ PD.prior_sar = RInt(PD.ep) /\ PD.ep = SeqMax(PD.highs)
    /\ Len(PD.highs) = 3 /\ PD.highs[3] = event.ask_high /\ PD.lows[3] = event.ask_low
    /\ event.bid_high < event.ask_high /\ event.bid_low < event.ask_low

\* the call just made was given a tick the engine accepts
AcceptedStep ==
    /\ event'.type = "TICK" /\ event'.instrument = pairs[1]
    /\ ~HasNaNField(event')

\* C18: Trend-Reversal Engine: the first accepted tick only records itself as
\* last_event and advances ticks by one, with no indicator and no signal; in
\* every reachable state last_event is absent iff ticks = 0 and prior_sar is
\* absent iff ticks <= 1; every accepted tick increases ticks by exactly one.
C18_FirstTick ==
    /\ [](/\ (PD.last_event = NoEvent) <=> (PD.ticks = 0)
          /\ (PD.prior_sar = None) <=> (PD.ticks <= 1))
    /\ [][AcceptedStep
            => /\ PD'.ticks = PD.ticks + 1
               /\ PD.ticks = 0 => /\ PD' = [PD EXCEPT !.last_event = event', !.ticks = 1]
                                  /\ events' = events]_vars

\* C18 witness: exactly one tick has been accepted; it is stored, nothing is
\* computed and the sink is empty.
C18_Witness ==
    /\ PD.ticks = 1 /\ PD.last_event = event /\ event.type = "TICK"
    /\ PD.prior_sar = None /\ PD.direction = 0
    /\ PD.highs = << >> /\ PD.lows = << >>
    /\ events = << >> /\ result = "return"

\* the call just made was given a tick of a tracked instrument
MAC_TickStep == event'.type = "TICK" /\ event'.instrument \in Tracked

\* C19: Crossover Detector: an instrument's first tick sets both averages to
\* the tick's bid; every later tick of the instrument, warmed up or not, signal
\* or not, makes short_sma = (old_short * (short_window - 1) + bid) /
\* short_window and long_sma = (old_long * (long_window - 1) + bid) /
\* long_window; every tick adds exactly one to the instrument's ticks.
C19_RollingAverages ==
    [][MAC_TickStep
         => LET o == mac.pairs_dict[event'.instrument]
                n == mac'.pairs_dict[event'.instrument]
                bid == RInt(event'.bid)
            IN /\ n.ticks = o.ticks + 1
               /\ o.ticks = 0 => (n.short_sma = bid /\ n.long_sma = bid)
               /\ o.ticks > 0
                    => /\ RMul(n.short_sma, RInt(mac.short_window))
                            = RAdd(RMul(o.short_sma, RInt(mac.short_window - 1)), bid)
                       /\ RMul(n.long_sma, RInt(mac.long_window))
                            = RAdd(RMul(o.long_sma, RInt(mac.long_window - 1)), bid)]_vars

\* C19 witness: after at least three ticks of one instrument the two averages
\* differ from each other and from the last bid, and the long one is a fraction.
C19_Witness ==
    /\ event.type = "TICK" /\ event.instrument \in Tracked
    /\ LET pd == mac.pairs_dict[event.instrument]
       IN /\ pd.ticks >= 3
          /\ pd.short_sma # pd.long_sma
          /\ pd.short_sma # RInt(event.bid) /\ pd.long_sma # RInt(event.bid)
          /\ pd.long_sma[2] > 1

NoRepeat(s) == \A i \in 1..(Len(s) - 1) : s[i] # s[i + 1]

\* C20: Trend-Reversal Engine: the signals on the queue strictly alternate
\* between buy and sell; a tick emits at most one buy and at most one sell,
\* and when it emits both the buy comes first and the tick ends with short
\* set and long cleared; once a signal has been emitted exactly one of
\* long/short is true, in every later state.
C20_SignalsAlternate ==
    /\ [](/\ NoRepeat(SidesOf(events, pairs[1]))
          /\ Len(SidesOf(events, pairs[1])) = Len(events)
          /\ events # << >> => (PD.long # PD.short))
    /\ [][/\ Put \in {<< >>, <<Buy>>, <<Sell>>, <<Buy, Sell>>}
          /\ Put = <<Buy, Sell>> => (PD'.short /\ ~PD'.long)]_vars

\* C20 witness: the seeding tick emitted a buy and a sell, and the next tick
\* a buy alone.
C20_Witness ==
    /\ PD.ticks = 3 /\ events = <<Buy, Sell, Buy>>
    /\ PD.long /\ ~PD.short

====
